---- MODULE Spec2Model ----
\* Shutter (Cloudflare Worker port): the two-phase canary check, the offenders
\* ledger (D1 table `offenders`) and the /fetch request handler.
\*
\* Numbers.  Confidences are JavaScript numbers in [0,1]; the model keeps them
\* exactly, in thousandths (0.95 is 950).  avg_confidence, the only quantity
\* the code divides, is an exact fraction <<numerator, denominator>> of
\* thousandths; floating-point rounding is not modelled.
\*
\* Text.  Page content is a sequence of segments (benign text, a phrase that
\* some INJECTION_PATTERNS regexes match, one code point, one Base64 run); the
\* language model's output and the user's query are character strings.
EXTENDS Integers, Sequences, FiniteSets, TLC

VARIABLES procs, db, hist, tainted, started

vars == <<procs, db, hist, tainted, started>>

\* ------------------------------------------------------------------ bounds

\* callers (concurrent requests or direct ledger clients)
NumProcs == 2
\* /fetch requests started in one behaviour of the worker
MaxRequests == 2
\* direct addOffender calls started in one behaviour of the ledger
MaxCalls == 3
\* segments in one page content handed to canaryCheck
MaxSegs == 2
\* /fetch requests started for one domain when requests repeat
MaxRepeat == 4

Procs == 1..NumProcs

\* ------------------------------------------------------------- arithmetic

Min(a, b) == IF a <= b THEN a ELSE b

Max(a, b) == IF a >= b THEN a ELSE b

RECURSIVE GCD(_, _)
GCD(a, b) == IF b = 0 THEN a ELSE GCD(b, a % b)

\* a fraction n/d (d > 0) in lowest terms
RatNorm(n, d) == LET g == GCD(n, d) IN IF g = 0 THEN <<0, 1>> ELSE <<n \div g, d \div g>>

RatOfInt(k) == <<k, 1>>

RatMulInt(r, k) == RatNorm(r[1] * k, r[2])

RatAddInt(r, k) == RatNorm(r[1] + k * r[2], r[2])

RatDivInt(r, k) == RatNorm(r[1], r[2] * k)

RatGeInt(r, k) == r[1] >= k * r[2]

\* Number.prototype.toFixed(2) of a confidence in thousandths
ToFixed2(c) ==
  LET h == (c + 5) \div 10
  IN  IF h >= 100
        THEN ToString(h \div 100) \o "." \o (IF h % 100 < 10 THEN "0" ELSE "") \o ToString(h % 100)
        ELSE "0." \o (IF h < 10 THEN "0" ELSE "") \o ToString(h)

\* ------------------------------------------------------- pattern tables

\* INJECTION_PATTERNS: [pattern, type, base_confidence], in table order
INJECTION_PATTERNS == <<
  [type |-> "instruction_override", confidence |-> 950],  \* ignore\s+(all\s+)?previous\s+instructions?
  [type |-> "instruction_override", confidence |-> 900],  \* disregard\s+(all|previous|above)
  [type |-> "instruction_override", confidence |-> 900],  \* override\s+(instructions?|rules?|guidelines?)
  [type |-> "instruction_override", confidence |-> 850],  \* new\s+instructions?:
  [type |-> "jailbreak_attempt", confidence |-> 900],     \* jailbreak
  [type |-> "jailbreak_attempt", confidence |-> 850],     \* dan\s+mode
  [type |-> "safety_bypass", confidence |-> 900],         \* ignore\s+safety
  [type |-> "delimiter_injection", confidence |-> 900],   \* <\s*system\s*>
  [type |-> "delimiter_injection", confidence |-> 850],   \* \[inst\]|\[\/inst\]
  [type |-> "prompt_leak", confidence |-> 850],           \* (reveal|show|print|output)\s+(your\s+)?(system\s+)?prompt
  [type |-> "delimiter_injection", confidence |-> 800],   \* ```\s*system
  [type |-> "memory_wipe", confidence |-> 800],           \* forget\s+(everything|all|previous)
  [type |-> "mode_switch", confidence |-> 750],           \* (developer|admin|system)\s+mode
  [type |-> "role_hijack", confidence |-> 700],           \* you\s+are\s+now\s+a?
  [type |-> "role_hijack", confidence |-> 650],           \* pretend\s+(you\s+are|to\s+be)
  [type |-> "role_hijack", confidence |-> 500] >>         \* act\s+as\s+(a\s+)?

\* SUSPICIOUS_UNICODE_RANGES: [start, end, char_type, confidence]
SUSPICIOUS_UNICODE_RANGES == <<
  [start |-> 917504, end |-> 917631, charType |-> "tag_characters", confidence |-> 850],
  [start |-> 8203, end |-> 8207, charType |-> "zero_width", confidence |-> 350],
  [start |-> 8288, end |-> 8303, charType |-> "word_joiners", confidence |-> 300],
  [start |-> 65279, end |-> 65279, charType |-> "bom", confidence |-> 200] >>

\* INDICATOR_WEIGHTS
INDICATOR_WEIGHTS ==
  [instruction_following |-> 850, meta_discussion |-> 700, topic_deviation |-> 650]

\* COMMON_WORDS
COMMON_WORDS ==
  { "the", "a", "an", "is", "are", "was", "were", "be", "been",
    "being", "have", "has", "had", "do", "does", "did", "will",
    "would", "could", "should", "may", "might", "must", "shall",
    "can", "need", "dare", "ought", "used", "to", "of", "in",
    "for", "on", "with", "at", "by", "from", "as", "into",
    "through", "during", "before", "after", "above", "below",
    "between", "under", "again", "further", "then", "once",
    "what", "which", "who", "whom", "this", "that", "these",
    "those", "am", "it", "its", "and", "but", "or", "nor",
    "so", "yet", "both", "either", "neither", "not", "only",
    "own", "same", "than", "too", "very", "just", "also" }

\* DEFAULTS.BLOCK_THRESHOLD
BLOCK_THRESHOLD == 600

\* ------------------------------------------------------- page content

\* A segment of page content.  kind "text": benign whitespace-separated words;
\* "phrase": words that the regexes numbered in pats match (and no others);
\* "char": the single code point code; "b64": len characters of
\* [A-Za-z0-9+/] followed by pad '=' signs.  len counts UTF-16 code units.
TextSeg(n) == [kind |-> "text", pats |-> {}, code |-> 0, len |-> n, pad |-> 0]

PhraseSeg(ps, n) == [kind |-> "phrase", pats |-> ps, code |-> 0, len |-> n, pad |-> 0]

CharSeg(cp) == [kind |-> "char", pats |-> {}, code |-> cp, len |-> IF cp > 65535 THEN 2 ELSE 1, pad |-> 0]

B64Seg(n, p) == [kind |-> "b64", pats |-> {}, code |-> 0, len |-> n, pad |-> p]

\* string.length
RECURSIVE ContentLength(_)
ContentLength(content) ==
  IF content = <<>> THEN 0
  ELSE Head(content).len + Head(content).pad + ContentLength(Tail(content))

\* the absent HeuristicMatch / PromptInjectionDetails (null)
NullMatch == [type |-> "", snippet |-> "", confidence |-> 0]

IsNullMatch(m) == m.type = ""

\* ------------------------------------------------------ heuristic checks

\* pattern.exec(contentLower): the first segment the regex numbered i matches
PatternHit(content, i) == \E k \in 1..Len(content) : i \in content[k].pats

PatternAt(content, i) ==
  CHOOSE k \in 1..Len(content) :
    i \in content[k].pats /\ \A j \in 1..(k - 1) : i \notin content[j].pats

\* content.slice(start, end) around the match: a non-empty piece of the page
SnippetAround(content, k) == "slice@" \o ToString(k)

\* checkHeuristics: one match per pattern that matches anywhere, in table order
RECURSIVE HeuristicsFrom(_, _)
HeuristicsFrom(content, i) ==
  IF i > Len(INJECTION_PATTERNS) THEN <<>>
  ELSE (IF PatternHit(content, i)
          THEN << [type |-> INJECTION_PATTERNS[i].type,
                   snippet |-> SnippetAround(content, PatternAt(content, i)),
                   confidence |-> INJECTION_PATTERNS[i].confidence] >>
          ELSE <<>>)
       \o HeuristicsFrom(content, i + 1)

CheckHeuristics(content) == HeuristicsFrom(content, 1)

\* code points in a segment (for...of iterates by code point)
CodePoints(seg) == IF seg.kind = "char" THEN 1 ELSE seg.len + seg.pad

InRange(code, r) == code >= r.start /\ code <= r.end

Suspicious(seg) ==
  seg.kind = "char" /\ \E r \in 1..Len(SUSPICIOUS_UNICODE_RANGES) : InRange(seg.code, SUSPICIOUS_UNICODE_RANGES[r])

RECURSIVE PositionOf(_, _)
PositionOf(content, k) ==
  IF k <= 1 THEN 0 ELSE CodePoints(content[k - 1]) + PositionOf(content, k - 1)

\* checkUnicode: the first code point that lies in any range
CheckUnicode(content) ==
  IF \A k \in 1..Len(content) : ~Suspicious(content[k]) THEN NullMatch
  ELSE LET k == CHOOSE x \in 1..Len(content) :
                  Suspicious(content[x]) /\ \A j \in 1..(x - 1) : ~Suspicious(content[j])
           r == CHOOSE x \in 1..Len(SUSPICIOUS_UNICODE_RANGES) :
                  /\ InRange(content[k].code, SUSPICIOUS_UNICODE_RANGES[x])
                  /\ \A j \in 1..(x - 1) : ~InRange(content[k].code, SUSPICIOUS_UNICODE_RANGES[j])
           range == SUSPICIOUS_UNICODE_RANGES[r]
       IN  [type |-> "hidden_unicode_" \o range.charType,
            snippet |-> "[Hidden " \o range.charType \o " at position "
                          \o ToString(PositionOf(content, k)) \o "]",
            confidence |-> range.confidence]

\* BASE64_PATTERN /[A-Za-z0-9+/]{40,}={0,2}/g: the lengths of content.match's
\* matches, in order.  run is the count of Base64 characters pending before
\* segment k (adjacent "b64" segments without padding form one run).
RECURSIVE Base64Matches(_, _, _)
Base64Matches(content, k, run) ==
  LET flush(n, p) == IF n >= 40 THEN << n + Min(p, 2) >> ELSE <<>>
  IN  IF k > Len(content) THEN flush(run, 0)
      ELSE IF content[k].kind # "b64"
             THEN flush(run, 0) \o Base64Matches(content, k + 1, 0)
           ELSE IF content[k].pad = 0
             THEN Base64Matches(content, k + 1, run + content[k].len)
           ELSE flush(run + content[k].len, content[k].pad)
                  \o Base64Matches(content, k + 1, 0)

\* checkBase64: the first match longer than 100 characters
CheckBase64(content) ==
  LET matches == Base64Matches(content, 1, 0)
      long == { i \in 1..Len(matches) : matches[i] > 100 }
  IN  IF long = {} THEN NullMatch
      ELSE LET i == CHOOSE x \in long : \A y \in long : x <= y
               length == matches[i]
           IN  [type |-> "base64_payload",
                snippet |-> "base64[" \o ToString(length) \o "]",
                confidence |-> Min(950, 600 + ((length - 100) * 1000) \div 500)]

\* -------------------------------------------------- confidence aggregation

Signal(type, conf) == type \o ":" \o ToFixed2(conf)

\* weightOverrides[match.type] ?? match.confidence
Weighted(m, weightOverrides) ==
  IF m.type \in DOMAIN weightOverrides THEN weightOverrides[m.type] ELSE m.confidence

\* one step of "if (conf > maxConfidence) {...}" after pushing the signal
Fold(acc, m, conf) ==
  [confidence |-> IF conf > acc.confidence THEN conf ELSE acc.confidence,
   type |-> IF conf > acc.confidence THEN m.type ELSE acc.type,
   snippet |-> IF conf > acc.confidence THEN m.snippet ELSE acc.snippet,
   signals |-> Append(acc.signals, Signal(m.type, conf))]

RECURSIVE FoldMatches(_, _, _, _)
FoldMatches(matches, i, acc, weightOverrides) ==
  IF i > Len(matches) THEN acc
  ELSE FoldMatches(matches, i + 1,
                   Fold(acc, matches[i], Weighted(matches[i], weightOverrides)),
                   weightOverrides)

\* faulty variant: each boost asks for one match more
BoostOffByOne(maxConfidence, n) ==
  LET b2 == IF n > 2 THEN Min(980, maxConfidence + 100) ELSE maxConfidence
  IN  IF n > 3 THEN Min(990, b2 + 50) ELSE b2

\* the multi-pattern boost on the running maximum
Boost(maxConfidence, n) ==
  LET b2 == IF n >= 2 THEN Min(980, maxConfidence + 100) ELSE maxConfidence
  IN  IF n >= 3 THEN Min(990, b2 + 50) ELSE b2

\* aggregateConfidence
AggregateConfidence(heuristicMatches, unicodeResult, base64Result, weightOverrides) ==
  LET start == [confidence |-> 0, type |-> "", snippet |-> "", signals |-> <<>>]
      a1 == FoldMatches(heuristicMatches, 1, start, weightOverrides)
      a2 == [a1 EXCEPT !.confidence = Boost(a1.confidence, Len(heuristicMatches))]
      a3 == IF IsNullMatch(unicodeResult) THEN a2
            ELSE Fold(a2, unicodeResult, unicodeResult.confidence)
      a4 == IF IsNullMatch(base64Result) THEN a3
            ELSE Fold(a3, base64Result, base64Result.confidence)
  IN  a4

\* ------------------------------------------------------------- strings

UpperCase == "ABCDEFGHIJKLMNOPQRSTUVWXYZ"

LowerCase == "abcdefghijklmnopqrstuvwxyz"

CharAt(s, i) == SubSeq(s, i, i)

\* the upper-case letters' lower-case forms
LowerTable ==
  [ch \in { CharAt(UpperCase, i) : i \in 1..Len(UpperCase) } |->
     CharAt(LowerCase, CHOOSE i \in 1..Len(UpperCase) : CharAt(UpperCase, i) = ch)]

LowerChar(ch) == IF ch \in DOMAIN LowerTable THEN LowerTable[ch] ELSE ch

\* String.prototype.toLowerCase
RECURSIVE ToLowerFrom(_, _)
ToLowerFrom(s, i) == IF i > Len(s) THEN "" ELSE LowerChar(CharAt(s, i)) \o ToLowerFrom(s, i + 1)

ToLowerCase(s) == ToLowerFrom(s, 1)

\* String.prototype.includes
Includes(s, sub) ==
  \E i \in 1..(Len(s) - Len(sub) + 1) : SubSeq(s, i, i + Len(sub) - 1) = sub

\* String.prototype.slice(0, n)
SliceTo(s, n) == SubSeq(s, 1, Min(n, Len(s)))

IsSpace(ch) == ch \in {" ", "\t", "\n", "\r"}

\* String.prototype.split(/\s+/): the pieces between maximal whitespace runs
\* (an empty piece before leading and after trailing whitespace)
RECURSIVE SplitFrom(_, _, _)
SplitFrom(s, i, cur) ==
  IF i > Len(s) THEN << cur >>
  ELSE IF IsSpace(CharAt(s, i))
         THEN IF i > 1 /\ IsSpace(CharAt(s, i - 1))
                THEN SplitFrom(s, i + 1, cur)
                ELSE << cur >> \o SplitFrom(s, i + 1, "")
       ELSE SplitFrom(s, i + 1, cur \o CharAt(s, i))

SplitWhitespace(s) == SplitFrom(s, 1, "")

\* new Set(words.filter((w) => !COMMON_WORDS.has(w)))
ContentWords(s) ==
  LET ws == SplitWhitespace(s)
  IN  { ws[i] : i \in { j \in 1..Len(ws) : ws[j] \notin COMMON_WORDS } }

\* ------------------------------------------------------ LLM canary check

NoInjection ==
  [detected |-> FALSE, type |-> "", snippet |-> "", domainFlagged |-> FALSE,
   confidence |-> 0, signals |-> <<>>]

instructionIndicators ==
  { "i will now", "as you requested", "certainly!", "of course!", "here is your",
    "as per your instructions", "following your directive", "i understand you want me to" }

metaIndicators ==
  { "my instructions", "my prompt", "my system", "i am an ai", "i'm an ai",
    "as an ai", "my programming", "my guidelines" }

notFoundPhrases ==
  { "not found", "no information", "doesn't contain", "does not contain",
    "couldn't find", "could not find", "not present", "not available", "not mentioned" }

\* hasPrefixMatch
HasPrefixMatch(querySet, outputSet, minPrefix) ==
  \E qWord \in querySet :
    /\ Len(qWord) >= minPrefix
    /\ \E oWord \in outputSet :
         Len(oWord) >= minPrefix /\ SubSeq(oWord, 1, minPrefix) = SubSeq(qWord, 1, minPrefix)

\* the PromptInjectionDetails analyzeCanaryOutput builds for an indicator
IndicatorResult(type, confidence, output) ==
  [detected |-> TRUE, type |-> type, snippet |-> SliceTo(output, 100),
   domainFlagged |-> confidence >= 700, confidence |-> confidence,
   signals |-> << Signal(type, confidence) >>]

\* faulty variant: the meta-discussion phrases looked for first
AnalyzeCanaryOutputMetaFirst(output, originalQuery) ==
  LET outputLower == ToLowerCase(output)
      queryWords == ContentWords(ToLowerCase(originalQuery))
      outputWords == ContentWords(outputLower)
      hasDirectOverlap == \E w \in queryWords : w \in outputWords
      hasOverlap == hasDirectOverlap \/ HasPrefixMatch(queryWords, outputWords, 4)
      isNotFound == \E phrase \in notFoundPhrases : Includes(outputLower, phrase)
  IN  IF \E indicator \in metaIndicators : Includes(outputLower, indicator)
        THEN IndicatorResult("meta_discussion", INDICATOR_WEIGHTS.meta_discussion, output)
      ELSE IF \E indicator \in instructionIndicators : Includes(outputLower, indicator)
        THEN IndicatorResult("instruction_following", INDICATOR_WEIGHTS.instruction_following, output)
      ELSE IF Cardinality(queryWords) > 0 /\ ~hasOverlap /\ ~isNotFound
        THEN IndicatorResult("topic_deviation", INDICATOR_WEIGHTS.topic_deviation, output)
      ELSE NoInjection

\* analyzeCanaryOutput
AnalyzeCanaryOutput(output, originalQuery) ==
  LET outputLower == ToLowerCase(output)
      queryWords == ContentWords(ToLowerCase(originalQuery))
      outputWords == ContentWords(outputLower)
      hasDirectOverlap == \E w \in queryWords : w \in outputWords
      hasOverlap == hasDirectOverlap \/ HasPrefixMatch(queryWords, outputWords, 4)
      isNotFound == \E phrase \in notFoundPhrases : Includes(outputLower, phrase)
  IN  IF \E indicator \in instructionIndicators : Includes(outputLower, indicator)
        THEN IndicatorResult("instruction_following", INDICATOR_WEIGHTS.instruction_following, output)
      ELSE IF \E indicator \in metaIndicators : Includes(outputLower, indicator)
        THEN IndicatorResult("meta_discussion", INDICATOR_WEIGHTS.meta_discussion, output)
      ELSE IF Cardinality(queryWords) > 0 /\ ~hasOverlap /\ ~isNotFound
        THEN IndicatorResult("topic_deviation", INDICATOR_WEIGHTS.topic_deviation, output)
      ELSE NoInjection

\* What the chat-completions request of runCanaryLlm comes back with:
\* "throw" (fetch rejects), "status" (response.ok is false), "badjson"
\* (response.json() rejects), "nochoices" (no choices[0].message.content),
\* "content" (the message content, possibly the empty string).
LlmReply(kind, content) == [kind |-> kind, content |-> content]

\* faulty variant: the message content analysed without testing that it is there
RunCanaryLlmNoContentCheck(reply, query) ==
  IF reply.kind \in {"content", "nochoices"}
    THEN AnalyzeCanaryOutput(reply.content, query)
    ELSE NoInjection

\* runCanaryLlm, given the reply to its one request
RunCanaryLlm(reply, query) ==
  IF reply.kind = "content" /\ reply.content # ""
    THEN AnalyzeCanaryOutput(reply.content, query)
    ELSE NoInjection

\* ------------------------------------------------------------ canaryCheck

\* lines 499-508: the three heuristic checks, aggregated without overrides
Aggregated(content) ==
  AggregateConfidence(CheckHeuristics(content), CheckUnicode(content),
                      CheckBase64(content), << >>)

\* faulty variant: the threshold test made strict
HeuristicsDecisiveStrict(aggregated, blockThreshold) ==
  aggregated.confidence > blockThreshold /\ aggregated.type # "" /\ aggregated.snippet # ""

\* line 511-515: heuristics alone are decisive
HeuristicsDecisive(aggregated, blockThreshold) ==
  aggregated.confidence >= blockThreshold /\ aggregated.type # "" /\ aggregated.snippet # ""

\* faulty variant: the probe cutoff made inclusive
NeedsProbeInclusive(aggregated) == aggregated.confidence <= 300

\* line 527: heuristics inconclusive, run the LLM check
NeedsProbe(aggregated) == aggregated.confidence < 300

\* faulty variant: every heuristic verdict flags the domain
HeuristicVerdictAlwaysFlagged(aggregated) ==
  [detected |-> TRUE, type |-> aggregated.type, snippet |-> aggregated.snippet,
   domainFlagged |-> TRUE,
   confidence |-> aggregated.confidence, signals |-> aggregated.signals]

\* lines 516-523: the verdict of the heuristics alone
HeuristicVerdict(aggregated) ==
  [detected |-> TRUE, type |-> aggregated.type, snippet |-> aggregated.snippet,
   domainFlagged |-> aggregated.confidence >= 700,
   confidence |-> aggregated.confidence, signals |-> aggregated.signals]

\* faulty variant: the combined confidence compared with the default threshold
\* instead of the caller's
CombineLlmDefaultThreshold(aggregated, llmResult, blockThreshold) ==
  IF llmResult.detected
    THEN LET combinedConfidence == Max(aggregated.confidence + 200, llmResult.confidence)
             combinedSignals == aggregated.signals \o llmResult.signals
         IN  IF combinedConfidence >= BLOCK_THRESHOLD
               THEN [detected |-> TRUE, type |-> llmResult.type, snippet |-> llmResult.snippet,
                     domainFlagged |-> combinedConfidence >= 700,
                     confidence |-> combinedConfidence, signals |-> combinedSignals]
               ELSE NoInjection
    ELSE NoInjection

\* faulty variant: the weak heuristic signal counted with 0.5 added, not 0.2
CombineLlmStrongBoost(aggregated, llmResult, blockThreshold) ==
  IF llmResult.detected
    THEN LET combinedConfidence == Max(aggregated.confidence + 500, llmResult.confidence)
             combinedSignals == aggregated.signals \o llmResult.signals
         IN  IF combinedConfidence >= blockThreshold
               THEN [detected |-> TRUE, type |-> llmResult.type, snippet |-> llmResult.snippet,
                     domainFlagged |-> combinedConfidence >= 700,
                     confidence |-> combinedConfidence, signals |-> combinedSignals]
               ELSE NoInjection
    ELSE NoInjection

\* lines 529-547: what canaryCheck returns once runCanaryLlm has resolved
CombineLlm(aggregated, llmResult, blockThreshold) ==
  IF llmResult.detected
    THEN LET combinedConfidence == Max(aggregated.confidence + 200, llmResult.confidence)
             combinedSignals == aggregated.signals \o llmResult.signals
         IN  IF combinedConfidence >= blockThreshold
               THEN [detected |-> TRUE, type |-> llmResult.type, snippet |-> llmResult.snippet,
                     domainFlagged |-> combinedConfidence >= 700,
                     confidence |-> combinedConfidence, signals |-> combinedSignals]
               ELSE NoInjection
    ELSE NoInjection

\* ------------------------------------------------------- offenders table

\* a row of table offenders (first_seen and last_seen are not modelled);
\* exists = FALSE stands for "no row with this primary key"
NoRow ==
  [exists |-> FALSE, detectionCount |-> 0, injectionTypes |-> <<>>,
   avgConfidence |-> <<0, 1>>, maxConfidence |-> 0]

Domains == {"a.com", "b.com"}

\* getOffender: SELECT * FROM offenders WHERE domain = ?
GetOffender(table, domain) == table[domain]

SeqContains(seq, x) == \E i \in 1..Len(seq) : seq[i] = x

\* faulty variant: the UPDATE keeps the old detection_count
UpdatedRowNoIncrement(existing, injectionType, confidence) ==
  [exists |-> TRUE, detectionCount |-> existing.detectionCount,
   injectionTypes |-> IF SeqContains(existing.injectionTypes, injectionType)
                        THEN existing.injectionTypes
                        ELSE Append(existing.injectionTypes, injectionType),
   avgConfidence |-> RatDivInt(RatAddInt(RatMulInt(existing.avgConfidence, existing.detectionCount),
                                         confidence),
                               existing.detectionCount + 1),
   maxConfidence |-> Max(existing.maxConfidence, confidence)]

\* faulty variant: the old average weighted by the new count
UpdatedRowAvgNewCount(existing, injectionType, confidence) ==
  LET newCount == existing.detectionCount + 1
  IN  [exists |-> TRUE, detectionCount |-> newCount,
       injectionTypes |-> IF SeqContains(existing.injectionTypes, injectionType)
                            THEN existing.injectionTypes
                            ELSE Append(existing.injectionTypes, injectionType),
       avgConfidence |-> RatDivInt(RatAddInt(RatMulInt(existing.avgConfidence, newCount),
                                             confidence),
                                   newCount),
       maxConfidence |-> Max(existing.maxConfidence, confidence)]

\* faulty variant: the UPDATE stores the latest confidence as the maximum
UpdatedRowMaxLatest(existing, injectionType, confidence) ==
  LET newCount == existing.detectionCount + 1
  IN  [exists |-> TRUE, detectionCount |-> newCount,
       injectionTypes |-> IF SeqContains(existing.injectionTypes, injectionType)
                            THEN existing.injectionTypes
                            ELSE Append(existing.injectionTypes, injectionType),
       avgConfidence |-> RatDivInt(RatAddInt(RatMulInt(existing.avgConfidence,
                                                       existing.detectionCount),
                                             confidence),
                                   newCount),
       maxConfidence |-> confidence]

\* addOffender, existing branch: the values bound to the UPDATE
UpdatedRow(existing, injectionType, confidence) ==
  LET newCount == existing.detectionCount + 1
      types == IF SeqContains(existing.injectionTypes, injectionType)
                 THEN existing.injectionTypes
                 ELSE Append(existing.injectionTypes, injectionType)
      newAvg == RatDivInt(RatAddInt(RatMulInt(existing.avgConfidence, existing.detectionCount),
                                    confidence),
                          newCount)
      newMax == Max(existing.maxConfidence, confidence)
  IN  [exists |-> TRUE, detectionCount |-> newCount, injectionTypes |-> types,
       avgConfidence |-> newAvg, maxConfidence |-> newMax]

\* addOffender, else branch: the values of the INSERT
InsertedRow(injectionType, confidence) ==
  [exists |-> TRUE, detectionCount |-> 1, injectionTypes |-> << injectionType >>,
   avgConfidence |-> RatOfInt(confidence), maxConfidence |-> confidence]

\* faulty variant: the maximum-confidence test made strict
ShouldSkipFetchStrict(table, domain) ==
  LET offender == GetOffender(table, domain)
  IN  IF ~offender.exists THEN FALSE
      ELSE IF offender.detectionCount >= 3 THEN TRUE
      ELSE IF offender.maxConfidence > 900 THEN TRUE
      ELSE IF RatGeInt(offender.avgConfidence, 800) /\ offender.detectionCount >= 2 THEN TRUE
      ELSE FALSE

\* shouldSkipFetch
ShouldSkipFetch(table, domain) ==
  LET offender == GetOffender(table, domain)
  IN  IF ~offender.exists THEN FALSE
      ELSE IF offender.detectionCount >= 3 THEN TRUE
      ELSE IF offender.maxConfidence >= 900 THEN TRUE
      ELSE IF RatGeInt(offender.avgConfidence, 800) /\ offender.detectionCount >= 2 THEN TRUE
      ELSE FALSE

\* ------------------------------------------------------------- fetch layer

\* a request URL: hostname as URL parsing gives it
Url(hostname) == [hostname |-> hostname]

NoUrl == Url("")

\* extractDomain
ExtractDomain(url) ==
  IF Len(url.hostname) >= 4 /\ SubSeq(url.hostname, 1, 4) = "www."
    THEN SubSeq(url.hostname, 5, Len(url.hostname))
    ELSE url.hostname

\* what one fetcher of the chain (fetchWithJina, fetchWithTavily, fetchBasic)
\* does: throws, or returns the page text
Fetched(content) == [threw |-> FALSE, content |-> content, reason |-> ""]

FetcherThrew == [threw |-> TRUE, content |-> <<>>, reason |-> "request failed"]

Usable(r) == ~r.threw /\ r.content # <<>> /\ ContentLength(r.content) >= 100

\* fetchUrl, errors.push: what one method that gave nothing usable adds
MethodError(name, r) ==
  name \o ": " \o (IF r.threw THEN r.reason ELSE "content too short")

\* new FetchError(url, reason)
FetchError(reason) == [threw |-> TRUE, content |-> <<>>, reason |-> reason]

\* fetchUrl: the first usable result of the chain, or FetchError with the
\* methods' errors joined
FetchUrl(jina, tavily, basic, tavilyApiKey) ==
  IF Usable(jina) THEN jina
  ELSE IF tavilyApiKey /\ Usable(tavily) THEN tavily
  ELSE IF Usable(basic) THEN basic
  ELSE FetchError(MethodError("Jina", jina)
                    \o (IF tavilyApiKey THEN "; " \o MethodError("Tavily", tavily) ELSE "")
                    \o "; " \o MethodError("Basic", basic))

\* ------------------------------------------------------------- responses

EmptyAggregated == [confidence |-> 0, type |-> "", snippet |-> "", signals |-> <<>>]

\* no Response yet (status 0); extracted is <<>> for null, <<text>> otherwise
NoResponse ==
  [status |-> 0, error |-> "", extracted |-> <<>>, tokensInput |-> 0,
   promptInjection |-> NoInjection]

\* errorResponse
ErrorResponse(status, message) == [NoResponse EXCEPT !.status = status, !.error = message]

\* jsonResponse(injectionResponse(url, tokensInput, injection))
InjectionResponse(tokensInput, injection) ==
  [NoResponse EXCEPT !.status = 200, !.tokensInput = tokensInput, !.promptInjection = injection]

DomainBlocked(domain) ==
  [detected |-> TRUE, type |-> "domain_blocked",
   snippet |-> "Domain " \o domain \o " is on offenders list",
   domainFlagged |-> TRUE, confidence |-> 900, signals |-> << "domain_blocked:0.90" >>]

FetchErrorDetails(reason) ==
  [detected |-> TRUE, type |-> "fetch_error", snippet |-> reason,
   domainFlagged |-> FALSE, confidence |-> 0, signals |-> <<>>]

EmptyContentDetails ==
  [detected |-> TRUE, type |-> "empty_content", snippet |-> "Page returned insufficient content",
   domainFlagged |-> FALSE, confidence |-> 0, signals |-> <<>>]

\* ------------------------------------------------------------- processes

\* One caller.  pc is the await it is suspended at; op the exported function
\* or route it entered by.  nFetch, nProbe, nExtract, nAdd, nWrite count this
\* operation's fetchUrl calls, runCanaryLlm calls, extractContent calls,
\* addOffender calls and table writes; fetchReason is the reason of the
\* FetchError fetchUrl threw, if it threw; afterSevere that, when the request
\* came in, an addOffender with confidence >= 0.90 had completed on its domain
\* since the table was last cleared (history only).
IdleProc ==
  [pc |-> "idle", op |-> "none", url |-> NoUrl, query |-> "", domain |-> "",
   afterSevere |-> FALSE, skip |-> FALSE, fetchReason |-> "", content |-> <<>>, blockThreshold |-> 0,
   weightOverrides |-> << >>,
   aggregated |-> EmptyAggregated, llmReply |-> LlmReply("none", ""),
   llmResult |-> NoInjection, canaryReturned |-> FALSE, injection |-> NoInjection,
   addType |-> "", addConfidence |-> 0, existing |-> NoRow,
   response |-> NoResponse,
   nFetch |-> 0, nProbe |-> 0, nExtract |-> 0, nAdd |-> 0, nWrite |-> 0]

Resting(q) == q.pc \in {"idle", "done", "threw"}

InAddOffender(q) == q.pc \in {"addRead", "addWrite"}

\* faulty variant: handleExtract goes on to extractContent whatever canaryCheck returned
CanaryReturnExtractAnyway(q, result) ==
  LET r == [q EXCEPT !.canaryReturned = TRUE, !.injection = result]
  IN  IF q.op = "canaryCheck" THEN [r EXCEPT !.pc = "done"]
      ELSE [r EXCEPT !.pc = "extracting", !.nExtract = @ + 1]

\* faulty variant: handleExtract records the offender only when the verdict says
\* domainFlagged, and answers at once otherwise
CanaryReturnFlaggedOnly(q, result) ==
  LET r == [q EXCEPT !.canaryReturned = TRUE, !.injection = result]
  IN  IF q.op = "canaryCheck" THEN [r EXCEPT !.pc = "done"]
      ELSE IF result.detected /\ result.domainFlagged
        THEN [r EXCEPT !.pc = "addRead", !.addType = result.type,
                       !.addConfidence = result.confidence, !.nAdd = @ + 1]
      ELSE IF result.detected
        THEN [r EXCEPT !.pc = "done",
                       !.response = InjectionResponse(ContentLength(q.content) \div 4, result)]
      ELSE [r EXCEPT !.pc = "extracting", !.nExtract = @ + 1]

\* handleExtract lines 151-170, once canaryCheck has resolved to result; a
\* direct canaryCheck call just returns it
CanaryReturn(q, result) ==
  LET r == [q EXCEPT !.canaryReturned = TRUE, !.injection = result]
  IN  IF q.op = "canaryCheck" THEN [r EXCEPT !.pc = "done"]
      ELSE IF result.detected
        THEN [r EXCEPT !.pc = "addRead", !.addType = result.type,
                       !.addConfidence = result.confidence, !.nAdd = @ + 1]
      ELSE [r EXCEPT !.pc = "extracting", !.nExtract = @ + 1]

\* canaryCheck up to its first await
CanaryStart(q, content, query, blockThreshold) ==
  LET aggregated == Aggregated(content)
      r == [q EXCEPT !.content = content, !.query = query,
                     !.blockThreshold = blockThreshold, !.aggregated = aggregated]
  IN  IF HeuristicsDecisive(aggregated, blockThreshold)
        THEN CanaryReturn(r, HeuristicVerdict(aggregated))
      ELSE IF NeedsProbe(aggregated)
        THEN [r EXCEPT !.pc = "awaitLlm", !.nProbe = @ + 1]
      ELSE CanaryReturn(r, NoInjection)

\* p moves to q.  tainted[d] records that two addOffender calls on d have
\* overlapped, or that the table was cleared during one (history only).
Move(p, q) ==
  /\ procs' = [procs EXCEPT ![p] = q]
  /\ tainted' =
       IF /\ q.pc = "addRead"
          /\ procs[p].pc # "addRead"
          /\ \E o \in Procs \ {p} : InAddOffender(procs[o]) /\ procs[o].domain = q.domain
         THEN [tainted EXCEPT ![q.domain] = TRUE]
         ELSE tainted

\* ---------------------------------------------------------------- inputs

\* segments a page handed to canaryCheck is built from
Segments ==
  { TextSeg(120),
    PhraseSeg({1}, 28),        \* "ignore previous instructions"
    PhraseSeg({14}, 11),       \* "you are now"
    PhraseSeg({15}, 13),       \* "pretend to be"
    PhraseSeg({16}, 8),        \* "act as a"
    PhraseSeg({14, 15}, 21),   \* "pretend you are now a"
    CharSeg(65279), CharSeg(8288), CharSeg(8203), CharSeg(917505),
    B64Seg(60, 0), B64Seg(101, 0) }

RECURSIVE SeqsUpTo(_, _)
SeqsUpTo(S, n) ==
  IF n = 0 THEN { <<>> }
  ELSE LET shorter == SeqsUpTo(S, n - 1)
       IN  shorter \cup { Append(c, x) : c \in shorter, x \in S }

CanaryContents == SeqsUpTo(Segments, MaxSegs)

Thresholds == {0, 200, BLOCK_THRESHOLD, 900}

Queries == {"pricing tiers", " "}

Outputs ==
  { "Certainly! Here is a poem", "As an AI I follow my instructions",
    "The weather is nice", "Pricing starts at 10 dollars",
    "The page does not contain that" }

LlmReplies ==
  { LlmReply("throw", ""), LlmReply("status", ""), LlmReply("badjson", ""),
    LlmReply("nochoices", ""), LlmReply("content", "") }
    \cup { LlmReply("content", o) : o \in Outputs }

\* weight overrides handed to aggregateConfidence: none, the documented
\* lowerings of a regex type and of a hidden-character type, a lowering of the
\* Base64 type, and a regex type raised to certainty
WeightOverrides ==
  { << >>,
    [role_hijack |-> 400],
    [hidden_unicode_zero_width |-> 200],
    [base64_payload |-> 300],
    [role_hijack |-> 1000] }

\* queries and message contents for the probe of a clean page: a query of
\* content words, queries that split into no word but the empty one, a query
\* of stop-words only, and one that shares no more than a prefix with a reply;
\* replies holding phrases of two indicator lists at once
ProbeQueries == {"pricing tiers", "", " ", "what is the", "Prices today"}

ProbeOutputs ==
  Outputs \cup
    { "Certainly! As an AI I comply", "Of course! That is not available",
      "My guidelines: not mentioned", "The weather is nice ", "" }

ProbeReplies == { LlmReply("content", o) : o \in ProbeOutputs }

\* the worker's request bodies, pages and replies
Bodies ==
  { [url |-> Url("www.a.com"), query |-> "pricing tiers"],
    [url |-> Url("a.com"), query |-> ""] }

PageClean == << TextSeg(120) >>

PageActAs == << TextSeg(120), PhraseSeg({16}, 8) >>

PagePretend == << TextSeg(120), PhraseSeg({15}, 13) >>

PageIgnore == << TextSeg(120), PhraseSeg({1}, 28) >>

PageShort == << TextSeg(50) >>

\* the runs of fetchUrl considered: what fetchWithJina, fetchWithTavily and
\* fetchBasic give, and whether env.TAVILY_API_KEY is set
FetchRun(jina, tavily, basic, key) ==
  [jina |-> jina, tavily |-> tavily, basic |-> basic, key |-> key]

FetchRuns ==
  { FetchRun(Fetched(page), FetcherThrew, FetcherThrew, FALSE) : page \in {PageClean, PageIgnore} }
    \cup { FetchRun(FetcherThrew, Fetched(PageActAs), FetcherThrew, TRUE),
            FetchRun(Fetched(PageShort), Fetched(PageIgnore), Fetched(PagePretend), FALSE),
            FetchRun(FetcherThrew, FetcherThrew, FetcherThrew, TRUE),
            FetchRun(Fetched(PageShort), Fetched(PageClean), Fetched(PageShort), FALSE) }

\* the ways fetchUrl ends on these runs
FetchUrlResults == { FetchUrl(c.jina, c.tavily, c.basic, c.key) : c \in FetchRuns }

WorkerReplies ==
  { LlmReply("throw", ""), LlmReply("content", "As you requested, here it is"),
    LlmReply("content", "Pricing starts at 10 dollars") }

\* the direct ledger client's arguments
Detection(domain, type, confidence) == [domain |-> domain, type |-> type, confidence |-> confidence]

Detections ==
  { Detection("a.com", "role_hijack", 500), Detection("a.com", "role_hijack", 800),
    Detection("a.com", "topic_deviation", 890), Detection("a.com", "topic_deviation", 900),
    Detection("b.com", "role_hijack", 800) }

\* --------------------------------------------------------------- actions

CanStart(p, limit) == Resting(procs[p]) /\ started < limit

\* an addOffender with confidence >= 0.90 has completed on domain since the
\* table was last cleared
SevereRecorded(domain) ==
  \E i \in 1..Len(hist[domain]) : hist[domain][i].confidence >= 900

\* handleExtract, lines 78-93: parse, validate, extractDomain, call
\* shouldSkipFetch; at most limit requests are taken
HandleExtractWithin(p, body, limit) ==
  /\ CanStart(p, limit)
  /\ started' = started + 1
  /\ IF body.url.hostname = "" \/ body.query = ""
       THEN Move(p, [IdleProc EXCEPT !.pc = "done", !.op = "handleExtract",
                       !.response = ErrorResponse(400, "Missing required fields: url, query")])
       ELSE Move(p, [IdleProc EXCEPT !.pc = "skipRead", !.op = "handleExtract",
                       !.url = body.url, !.query = body.query,
                       !.domain = ExtractDomain(body.url),
                       !.afterSevere = SevereRecorded(ExtractDomain(body.url))])
  /\ UNCHANGED <<db, hist>>

HandleExtractStart(p, body) == HandleExtractWithin(p, body, MaxRequests)

\* faulty variant: the offenders check does not stop the request
SkipCheckFetchAnyway(p) ==
  LET q == procs[p]
  IN  /\ q.pc = "skipRead"
      /\ Move(p, [q EXCEPT !.pc = "fetching", !.nFetch = @ + 1])
      /\ UNCHANGED <<db, hist, started>>

\* faulty variant: the request is stopped only for a domain detected three times
SkipCheckRepeatedOnly(p) ==
  LET q == procs[p]
  IN  /\ q.pc = "skipRead"
      /\ IF GetOffender(db, q.domain).exists /\ GetOffender(db, q.domain).detectionCount >= 3
           THEN Move(p, [q EXCEPT !.pc = "done", !.skip = TRUE,
                           !.response = InjectionResponse(0, DomainBlocked(q.domain))])
           ELSE Move(p, [q EXCEPT !.pc = "fetching", !.nFetch = @ + 1])
      /\ UNCHANGED <<db, hist, started>>

\* handleExtract, lines 93-113: shouldSkipFetch resolves; blocked, or call fetchUrl
SkipCheck(p) ==
  LET q == procs[p]
  IN  /\ q.pc = "skipRead"
      /\ IF ShouldSkipFetch(db, q.domain)
           THEN Move(p, [q EXCEPT !.pc = "done", !.skip = TRUE,
                           !.response = InjectionResponse(0, DomainBlocked(q.domain))])
           ELSE Move(p, [q EXCEPT !.pc = "fetching", !.nFetch = @ + 1])
      /\ UNCHANGED <<db, hist, started>>

\* handleExtract, lines 107-149: fetchUrl resolves or throws FetchError; the
\* length check; canaryCheck up to its first await
FetchDone(p, r) ==
  LET q == procs[p]
  IN  /\ q.pc = "fetching"
      /\ IF r.threw
           THEN Move(p, [q EXCEPT !.pc = "done", !.fetchReason = r.reason,
                           !.response = InjectionResponse(0, FetchErrorDetails(r.reason))])
         ELSE IF ContentLength(r.content) < 100
           THEN Move(p, [q EXCEPT !.pc = "done", !.content = r.content,
                           !.response = InjectionResponse(0, EmptyContentDetails)])
         ELSE Move(p, CanaryStart(q, r.content, q.query, BLOCK_THRESHOLD))
      /\ UNCHANGED <<db, hist, started>>

\* a direct call of canaryCheck(content, query, apiKey, blockThreshold)
CanaryCheckCall(p, content, query, blockThreshold) ==
  /\ procs[p].pc = "idle"
  /\ Move(p, CanaryStart([IdleProc EXCEPT !.op = "canaryCheck"], content, query, blockThreshold))
  /\ UNCHANGED <<db, hist, started>>

\* canaryCheck, lines 528-551: runCanaryLlm resolves
LlmResponds(p, reply) ==
  LET q == procs[p]
      llmResult == RunCanaryLlm(reply, q.query)
  IN  /\ q.pc = "awaitLlm"
      /\ Move(p, CanaryReturn([q EXCEPT !.llmReply = reply, !.llmResult = llmResult],
                              CombineLlm(q.aggregated, llmResult, q.blockThreshold)))
      /\ UNCHANGED <<db, hist, started>>

\* a direct call of aggregateConfidence on the three scanners' results for
\* content, with weightOverrides (synchronous: it returns at once)
AggregateConfidenceCall(p, content, weightOverrides) ==
  /\ procs[p].pc = "idle"
  /\ Move(p, [IdleProc EXCEPT !.pc = "done", !.op = "aggregateConfidence",
                !.content = content, !.weightOverrides = weightOverrides,
                !.aggregated = AggregateConfidence(CheckHeuristics(content), CheckUnicode(content),
                                                   CheckBase64(content), weightOverrides)])
  /\ UNCHANGED <<db, hist, started>>

\* a direct call of addOffender(db, domain, injectionType, confidence)
AddOffenderCall(p, domain, injectionType, confidence) ==
  /\ CanStart(p, MaxCalls)
  /\ started' = started + 1
  /\ Move(p, [IdleProc EXCEPT !.pc = "addRead", !.op = "addOffender", !.domain = domain,
                !.addType = injectionType, !.addConfidence = confidence, !.nAdd = 1])
  /\ UNCHANGED <<db, hist>>

\* addOffender, line 342: getOffender resolves
AddOffenderRead(p) ==
  LET q == procs[p]
  IN  /\ q.pc = "addRead"
      /\ Move(p, [q EXCEPT !.pc = "addWrite", !.existing = GetOffender(db, q.domain)])
      /\ UNCHANGED <<db, hist, started>>

\* handleExtract, lines 153-158, after addOffender has resolved
AfterAddOffender(q) ==
  IF q.op = "handleExtract"
    THEN [q EXCEPT !.pc = "done",
            !.response = InjectionResponse(ContentLength(q.content) \div 4,
                                           [q.injection EXCEPT !.domainFlagged = TRUE])]
    ELSE [q EXCEPT !.pc = "done"]

\* faulty variant: a failed INSERT is swallowed and the caller goes on as
\* though the detection had been recorded
AddOffenderWriteSwallowed(p) ==
  LET q == procs[p]
      d == q.domain
  IN  /\ q.pc = "addWrite"
      /\ IF ~q.existing.exists /\ db[d].exists
           THEN /\ Move(p, AfterAddOffender(q))
                /\ UNCHANGED <<db, hist>>
           ELSE /\ db' = IF q.existing.exists
                           THEN IF db[d].exists
                                  THEN [db EXCEPT ![d] = UpdatedRow(q.existing, q.addType, q.addConfidence)]
                                  ELSE db
                           ELSE [db EXCEPT ![d] = InsertedRow(q.addType, q.addConfidence)]
                /\ hist' = [hist EXCEPT ![d] = Append(@, [type |-> q.addType, confidence |-> q.addConfidence])]
                /\ Move(p, AfterAddOffender([q EXCEPT !.nWrite = @ + 1]))
      /\ UNCHANGED started

\* addOffender, lines 344-388: the UPDATE (no row: nothing changes) or the
\* INSERT (a row with this primary key: the statement fails and run() rejects)
AddOffenderWrite(p) ==
  LET q == procs[p]
      d == q.domain
  IN  /\ q.pc = "addWrite"
      /\ IF ~q.existing.exists /\ db[d].exists
           THEN /\ Move(p, [q EXCEPT !.pc = "threw"])
                /\ UNCHANGED <<db, hist>>
           ELSE /\ db' = IF q.existing.exists
                           THEN IF db[d].exists
                                  THEN [db EXCEPT ![d] = UpdatedRow(q.existing, q.addType, q.addConfidence)]
                                  ELSE db
                           ELSE [db EXCEPT ![d] = InsertedRow(q.addType, q.addConfidence)]
                /\ hist' = [hist EXCEPT ![d] = Append(@, [type |-> q.addType, confidence |-> q.addConfidence])]
                /\ Move(p, AfterAddOffender([q EXCEPT !.nWrite = @ + 1]))
      /\ UNCHANGED started

\* handleExtract, lines 162-187: extractContent resolves or throws
ExtractDone(p, ok) ==
  LET q == procs[p]
  IN  /\ q.pc = "extracting"
      /\ IF ok
           THEN Move(p, [q EXCEPT !.pc = "done",
                           !.response = [NoResponse EXCEPT !.status = 200,
                                                           !.extracted = << "extracted" >>]])
           ELSE Move(p, [q EXCEPT !.pc = "done",
                           !.response = ErrorResponse(500, "Extraction failed")])
      /\ UNCHANGED <<db, hist, started>>

\* clearOffenders (DELETE /offenders): DELETE FROM offenders
ClearOffenders(p) ==
  /\ Resting(procs[p])
  /\ UNCHANGED started
  /\ db' = [d \in Domains |-> NoRow]
  /\ hist' = [d \in Domains |-> <<>>]
  /\ procs' = [procs EXCEPT ![p] = [IdleProc EXCEPT !.pc = "done", !.op = "clearOffenders"]]
  /\ tainted' = [d \in Domains |-> \E o \in Procs \ {p} : InAddOffender(procs[o]) /\ procs[o].domain = d]

\* --------------------------------------------------------- specifications

Init ==
  /\ procs = [p \in Procs |-> IdleProc]
  /\ db = [d \in Domains |-> NoRow]
  /\ hist = [d \in Domains |-> <<>>]
  /\ tainted = [d \in Domains |-> FALSE]
  /\ started = 0

\* the worker: concurrent /fetch requests and DELETE /offenders
Next ==
  \/ \E p \in Procs, body \in Bodies : HandleExtractStart(p, body)
  \/ \E p \in Procs : SkipCheck(p)
  \/ \E p \in Procs, r \in FetchUrlResults : FetchDone(p, r)
  \/ \E p \in Procs, reply \in WorkerReplies : LlmResponds(p, reply)
  \/ \E p \in Procs : AddOffenderRead(p)
  \/ \E p \in Procs : AddOffenderWrite(p)
  \/ \E p \in Procs, ok \in BOOLEAN : ExtractDone(p, ok)
  \/ \E p \in Procs : ClearOffenders(p)

Spec == Init /\ [][Next]_vars

\* one caller of canaryCheck, every page, query, threshold and reply
NextCanary ==
  \/ \E content \in CanaryContents, query \in Queries, blockThreshold \in Thresholds :
        CanaryCheckCall(1, content, query, blockThreshold)
  \/ \E reply \in LlmReplies : LlmResponds(1, reply)

SpecCanary == Init /\ [][NextCanary]_vars

\* one caller of canaryCheck on pages of at most one segment
NextCanaryFair ==
  \/ \E content \in SeqsUpTo(Segments, 1), query \in Queries, blockThreshold \in Thresholds :
        CanaryCheckCall(1, content, query, blockThreshold)
  \/ \E reply \in LlmReplies : LlmResponds(1, reply)

\* canaryCheck with the scheduling the code guarantees: a call that can start
\* runs to its first await.  The request of runCanaryLlm carries no timer and
\* no abort signal, so nothing obliges LlmResponds to happen.
SpecCanaryFair ==
  /\ Init
  /\ [][NextCanaryFair]_vars
  /\ WF_vars(\E content \in SeqsUpTo(Segments, 1), query \in Queries, blockThreshold \in Thresholds :
               CanaryCheckCall(1, content, query, blockThreshold))

\* one caller of canaryCheck on a page without heuristic signals, so that the
\* probe runs and analyzeCanaryOutput decides
NextProbe ==
  \/ \E query \in ProbeQueries, blockThreshold \in Thresholds :
        CanaryCheckCall(1, PageClean, query, blockThreshold)
  \/ \E reply \in ProbeReplies : LlmResponds(1, reply)

SpecProbe == Init /\ [][NextProbe]_vars

\* one caller of aggregateConfidence, every page and every override table
NextAggregate ==
  \E content \in CanaryContents, weightOverrides \in WeightOverrides :
    AggregateConfidenceCall(1, content, weightOverrides)

SpecAggregate == Init /\ [][NextAggregate]_vars

\* the worker under repeated /fetch requests for one domain whose pages carry
\* an injection the heuristics decide, with no DELETE /offenders
NextRepeat ==
  \/ \E p \in Procs :
        HandleExtractWithin(p, [url |-> Url("a.com"), query |-> "pricing tiers"], MaxRepeat)
  \/ \E p \in Procs : SkipCheck(p)
  \/ \E p \in Procs, page \in {PagePretend, PageIgnore} : FetchDone(p, Fetched(page))
  \/ \E p \in Procs : AddOffenderRead(p)
  \/ \E p \in Procs : AddOffenderWrite(p)

SpecRepeat == Init /\ [][NextRepeat]_vars

\* the ledger: concurrent direct callers of addOffender and clearOffenders
NextLedger ==
  \/ \E p \in Procs, x \in Detections : AddOffenderCall(p, x.domain, x.type, x.confidence)
  \/ \E p \in Procs : AddOffenderRead(p)
  \/ \E p \in Procs : AddOffenderWrite(p)
  \/ \E p \in Procs : ClearOffenders(p)

SpecLedger == Init /\ [][NextLedger]_vars

\* the ledger with no clearOffenders: concurrent direct callers of addOffender
NextConcurrent ==
  \/ \E p \in Procs, x \in Detections : AddOffenderCall(p, x.domain, x.type, x.confidence)
  \/ \E p \in Procs : AddOffenderRead(p)
  \/ \E p \in Procs : AddOffenderWrite(p)

SpecConcurrent == Init /\ [][NextConcurrent]_vars

\* ------------------------------------------------------- canaryCheck claims

\* the callers that have entered canaryCheck directly
CanaryCallers == { p \in Procs : procs[p].op = "canaryCheck" }

\* the block-threshold test of canaryCheck, on the page and threshold of q
BlockStep(q) ==
  LET a == Aggregated(q.content)
  IN  a.confidence >= q.blockThreshold /\ a.type # "" /\ a.snippet # ""

\* C1: whenever the aggregated heuristic confidence is at least the block
\* threshold and an aggregated type and snippet exist, canaryCheck returns a
\* verdict carrying the aggregated type, snippet, confidence and signals, and
\* the LLM probe is never invoked.
C1_HeuristicVerdictWithoutProbe ==
  \A p \in CanaryCallers :
    LET q == procs[p]
        a == Aggregated(q.content)
    IN  BlockStep(q) =>
          /\ q.pc = "done"
          /\ q.canaryReturned
          /\ q.injection.detected
          /\ q.injection.type = a.type
          /\ q.injection.snippet = a.snippet
          /\ q.injection.confidence = a.confidence
          /\ q.injection.signals = a.signals
          /\ q.nProbe = 0

\* a call decided by the heuristics alone, at a confidence equal to its threshold
C1_Witness ==
  \E p \in CanaryCallers :
    /\ procs[p].pc = "done"
    /\ BlockStep(procs[p])
    /\ Aggregated(procs[p].content).confidence = procs[p].blockThreshold
    /\ procs[p].injection.detected
    /\ procs[p].nProbe = 0

C3_ProbeCombination ==
  \A p \in CanaryCallers :
    LET q == procs[p]
        a == Aggregated(q.content)
        l == RunCanaryLlm(q.llmReply, q.query)
        combined == Max(a.confidence + 200, l.confidence)
    IN  (q.nProbe = 1 /\ q.pc # "awaitLlm") =>
          /\ q.pc = "done"
          /\ q.canaryReturned
          /\ q.injection.detected <=> (l.detected /\ combined >= q.blockThreshold)
          /\ q.injection.detected =>
               /\ q.injection.type = l.type
               /\ q.injection.snippet = l.snippet
               /\ q.injection.confidence = combined
               /\ q.injection.signals = a.signals \o l.signals

\* a probe that found something, on a page with a heuristic signal of its own,
\* under a threshold the combined confidence does not reach: null
C3_Witness ==
  \E p \in CanaryCallers :
    /\ procs[p].pc = "done"
    /\ procs[p].nProbe = 1
    /\ RunCanaryLlm(procs[p].llmReply, procs[p].query).detected
    /\ Aggregated(procs[p].content).signals # <<>>
    /\ ~procs[p].injection.detected

\* the replies on which the probe's request fails: fetch throws, the status is
\* not ok, the body does not parse, the message has no content
FailedReply(reply) ==
  \/ reply.kind \in {"throw", "status", "badjson", "nochoices"}
  \/ reply.kind = "content" /\ reply.content = ""

\* C4: canaryCheck fails open on probe failure: if the probe's request throws,
\* answers with a non-ok status or has no message content, runCanaryLlm returns
\* null and canaryCheck returns null without throwing; a probe failure never
\* produces a verdict and never raises the confidence.
C4_ProbeFailsOpen ==
  \A p \in CanaryCallers :
    LET q == procs[p]
    IN  (q.nProbe = 1 /\ q.pc # "awaitLlm" /\ FailedReply(q.llmReply)) =>
          /\ q.pc = "done"
          /\ q.llmResult = NoInjection
          /\ q.canaryReturned
          /\ q.injection = NoInjection

\* a probe whose reply carried no message content, on a page the heuristics
\* gave a little confidence to
C4_Witness ==
  \E p \in CanaryCallers :
    /\ procs[p].pc = "done"
    /\ procs[p].nProbe = 1
    /\ procs[p].llmReply.kind = "nochoices"
    /\ Aggregated(procs[p].content).confidence > 0
    /\ procs[p].injection = NoInjection

\* ----------------------------------------------------- handleExtract claims

\* the requests that have entered handleExtract
Requests == { p \in Procs : procs[p].op = "handleExtract" }


\* C5: extractContent is called only after canaryCheck has returned null for
\* the same content in the same request; a request whose outcome is a canary
\* verdict, domain_blocked, fetch_error or empty_content never calls
\* extractContent and returns extracted = null.
C5_ExtractOnlyAfterCleanCanary ==
  \A p \in Requests :
    LET q == procs[p]
        a == Aggregated(q.content)
        l == RunCanaryLlm(q.llmReply, q.query)
    IN  /\ q.nExtract <= 1
        /\ q.nExtract = 1 =>
             /\ q.canaryReturned
             /\ q.injection = NoInjection
             /\ ~HeuristicsDecisive(a, BLOCK_THRESHOLD)
             /\ NeedsProbe(a) => q.nProbe = 1 /\ CombineLlm(a, l, BLOCK_THRESHOLD) = NoInjection
        /\ (q.injection.detected \/ q.response.promptInjection.detected) =>
             /\ q.nExtract = 0
             /\ q.response.extracted = <<>>

\* a request that was extracted after the heuristics and the probe both
\* returned nothing, next to one that was refused on a canary verdict
C5_Witness ==
  /\ \E p \in Requests :
       /\ procs[p].pc = "done"
       /\ procs[p].nProbe = 1
       /\ procs[p].nExtract = 1
       /\ procs[p].response.extracted # <<>>
  /\ \E p \in Requests :
       /\ procs[p].pc = "done"
       /\ procs[p].canaryReturned
       /\ procs[p].response.promptInjection.detected
       /\ procs[p].response.extracted = <<>>

\* C6: if shouldSkipFetch is true for the domain when a request is handled,
\* the request returns the domain_blocked verdict (domainFlagged true,
\* confidence 0.90) and performs no fetch, no LLM call and no ledger write.
C6_SkipBlocksRequest ==
  [][ \A p \in Requests :
        (procs[p].pc = "skipRead" /\ ShouldSkipFetch(db, procs[p].domain)
           /\ procs'[p] # procs[p]) =>
          /\ procs'[p].pc = "done"
          /\ procs'[p].response.status = 200
          /\ procs'[p].response.extracted = <<>>
          /\ procs'[p].response.promptInjection.detected
          /\ procs'[p].response.promptInjection.type = "domain_blocked"
          /\ procs'[p].response.promptInjection.domainFlagged
          /\ procs'[p].response.promptInjection.confidence = 900
          /\ procs'[p].nFetch = 0
          /\ procs'[p].nProbe = 0
          /\ procs'[p].nExtract = 0
          /\ procs'[p].nAdd = 0
          /\ procs'[p].nWrite = 0
          /\ db' = db ]_vars

\* a request answered domain_blocked for a domain the ledger says to skip
C6_Witness ==
  \E p \in Requests :
    /\ procs[p].pc = "done"
    /\ procs[p].skip
    /\ ShouldSkipFetch(db, procs[p].domain)
    /\ procs[p].response.promptInjection.type = "domain_blocked"
    /\ procs[p].nFetch = 0

\* C7: every non-null verdict returned by canaryCheck inside handleExtract
\* causes exactly one addOffender(domain, verdict.type, verdict.confidence)
\* call before the response is returned, whatever the verdict's domainFlagged
\* value; a null verdict causes no ledger write.
C7_VerdictRecordedOnce ==
  \A p \in Requests :
    LET q == procs[p]
    IN  /\ (q.canaryReturned /\ q.injection.detected) =>
             /\ q.nAdd = 1
             /\ q.addType = q.injection.type
             /\ q.addConfidence = q.injection.confidence
             /\ q.domain = ExtractDomain(q.url)
             /\ q.response.status # 0 => (q.pc = "done" /\ q.nWrite = 1)
        /\ (q.canaryReturned /\ ~q.injection.detected) =>
             /\ q.nAdd = 0
             /\ q.nWrite = 0

\* a verdict that canaryCheck returned with domainFlagged false, recorded and
\* answered
C7_Witness ==
  \E p \in Requests :
    /\ procs[p].pc = "done"
    /\ procs[p].canaryReturned
    /\ procs[p].injection.detected
    /\ ~procs[p].injection.domainFlagged
    /\ procs[p].nAdd = 1
    /\ procs[p].nWrite = 1
    /\ procs[p].response.promptInjection.type = procs[p].injection.type

\* ------------------------------------------------------------ ledger claims

\* C8: shouldSkipFetch(domain) is true if and only if a record exists for the
\* domain and (detectionCount >= 3, or maxConfidence >= 0.90, or
\* (avgConfidence >= 0.80 and detectionCount >= 2)); it is false for records
\* short of every bound, such as count 2 with maximum 0.89.
C8_SkipRule ==
  \A d \in Domains :
    LET r == db[d]
    IN  ShouldSkipFetch(db, d) <=>
          /\ r.exists
          /\ \/ r.detectionCount >= 3
             \/ r.maxConfidence >= 900
             \/ r.avgConfidence[1] >= 800 * r.avgConfidence[2] /\ r.detectionCount >= 2

\* one domain skipped on a maximum of exactly 0.90 at its first detection,
\* while the other, at count 1 and average 0.80, is not
C8_Witness ==
  /\ db["a.com"].exists
  /\ db["a.com"].detectionCount = 1
  /\ db["a.com"].maxConfidence = 900
  /\ ShouldSkipFetch(db, "a.com")
  /\ db["b.com"].exists
  /\ db["b.com"].detectionCount = 1
  /\ db["b.com"].avgConfidence = <<800, 1>>
  /\ ~ShouldSkipFetch(db, "b.com")

\* the addOffender calls on d that have completed since the table was last
\* cleared did not overlap one another, and no call on d is under way
Sequential(d) ==
  /\ ~tainted[d]
  /\ \A p \in Procs : ~(InAddOffender(procs[p]) /\ procs[p].domain = d)

RECURSIVE SumConfidence(_)
SumConfidence(h) ==
  IF h = <<>> THEN 0 ELSE h[1].confidence + SumConfidence(Tail(h))

\* C9: for non-overlapping addOffender calls on one domain with no clear in
\* between, after n >= 1 calls the record has detectionCount = n (the first
\* call inserts the record with count 1, each later call adds exactly 1);
\* every stored record has detectionCount >= 1.
C9_CountIsNumberOfCalls ==
  \A d \in Domains :
    /\ db[d].exists => db[d].detectionCount >= 1
    /\ ~tainted[d] =>
         /\ db[d].exists <=> Len(hist[d]) >= 1
         /\ db[d].exists => db[d].detectionCount = Len(hist[d])

\* three calls on one domain, one after the other
C9_Witness ==
  \E d \in Domains :
    /\ Sequential(d)
    /\ Len(hist[d]) = 3
    /\ db[d].detectionCount = 3

\* C10: avgConfidence of a record equals the arithmetic mean of all the
\* confidences recorded for the domain by non-overlapping calls since the last
\* clear: each update computes (oldAvg * oldCount + confidence) / (oldCount + 1).
C10_AverageIsMean ==
  \A d \in Domains :
    (~tainted[d] /\ db[d].exists) =>
      db[d].avgConfidence = RatNorm(SumConfidence(hist[d]), Len(hist[d]))

\* 0.5 then 0.9 recorded for one domain: average 0.7
C10_Witness ==
  \E d \in Domains :
    /\ Sequential(d)
    /\ Len(hist[d]) = 2
    /\ hist[d][1].confidence = 500
    /\ hist[d][2].confidence = 900
    /\ db[d].avgConfidence = <<700, 1>>

\* C11: for non-overlapping addOffender calls on one domain with no clear in
\* between, maxConfidence is at least every confidence recorded for the domain
\* and at least its avgConfidence, and it never decreases from one call to
\* the next.
C11_MaxDominates ==
  /\ [](\A d \in Domains :
          (~tainted[d] /\ db[d].exists) =>
            /\ \A i \in 1..Len(hist[d]) : db[d].maxConfidence >= hist[d][i].confidence
            /\ db[d].maxConfidence * db[d].avgConfidence[2] >= db[d].avgConfidence[1])
  /\ [][\A d \in Domains :
          (~tainted[d] /\ ~tainted'[d] /\ db[d].exists /\ db'[d].exists) =>
            db'[d].maxConfidence >= db[d].maxConfidence]_vars

\* 0.8 then 0.5 recorded for one domain, one call after the other: the
\* maximum stays 0.8, above the latest confidence and above the average
C11_Witness ==
  \E d \in Domains :
    /\ Sequential(d)
    /\ Len(hist[d]) = 2
    /\ hist[d][1].confidence = 800
    /\ hist[d][2].confidence = 500
    /\ db[d].maxConfidence = 800
    /\ db[d].avgConfidence = <<650, 1>>

\* no addOffender call on d is between its read and its write
Quiet(d) == \A p \in Procs : ~(InAddOffender(procs[p]) /\ procs[p].domain = d)

\* C12: for every interleaving of concurrent addOffender calls on a domain
\* that has a record, once all of them have completed the record has
\* detectionCount equal to the number of completed calls, avgConfidence equal
\* to the mean of all recorded confidences, maxConfidence equal to their
\* maximum, and injectionTypes containing every recorded type.
C12_ConcurrentUpdatesConverge ==
  \A d \in Domains :
    (db[d].exists /\ Quiet(d)) =>
      /\ db[d].detectionCount = Len(hist[d])
      /\ db[d].avgConfidence = RatNorm(SumConfidence(hist[d]), Len(hist[d]))
      /\ \A i \in 1..Len(hist[d]) :
           /\ db[d].maxConfidence >= hist[d][i].confidence
           /\ SeqContains(db[d].injectionTypes, hist[d][i].type)
      /\ \E i \in 1..Len(hist[d]) : db[d].maxConfidence = hist[d][i].confidence

\* C13: at every point a record for domain d exists if and only if at least
\* one addOffender(d, ...) has completed since the most recent clearOffenders
\* (or since the empty start).
C13_RecordIffDetectionSinceClear ==
  \A d \in Domains : db[d].exists <=> Len(hist[d]) >= 1

\* the INSERT of a request's addOffender is about to fail: the call read no
\* record, and a record with this primary key has been stored since
InsertWillFail(p) ==
  /\ procs[p].pc = "addWrite"
  /\ ~procs[p].existing.exists
  /\ db[procs[p].domain].exists

\* C14: if the ledger write in addOffender fails after a positive verdict, the
\* failure propagates out of handleExtract as a hard error: the request does
\* not return the injection response as though the detection had been
\* recorded, and no extraction is run.
C14_LedgerFailurePropagates ==
  [][ \A p \in Requests :
        (InsertWillFail(p) /\ procs'[p] # procs[p]) =>
          /\ procs'[p].pc = "threw"
          /\ procs'[p].response = NoResponse
          /\ procs'[p].nExtract = 0
          /\ procs'[p].nWrite = 0
          /\ db' = db ]_vars

\* a request with a verdict whose INSERT failed: it threw and answered nothing
C14_Witness ==
  \E p \in Requests :
    /\ procs[p].pc = "threw"
    /\ procs[p].injection.detected
    /\ procs[p].nAdd = 1
    /\ procs[p].nWrite = 0
    /\ procs[p].response = NoResponse

\* the requests whose fetchUrl call ended without usable page text
Unfetched == { p \in Requests : procs[p].pc = "done" /\ procs[p].fetchReason # "" }

\* every method fetchUrl tried returned page text, all of it shorter than 100
\* characters
OnlyShortText(q) ==
  /\ Includes(q.fetchReason, "content too short")
  /\ ~Includes(q.fetchReason, "request failed")

\* every method fetchUrl tried failed
OnlyFailures(q) ==
  /\ Includes(q.fetchReason, "request failed")
  /\ ~Includes(q.fetchReason, "content too short")

\* C15: a fetch failure yields a structured response with verdict type
\* fetch_error and insufficient content yields verdict type empty_content,
\* each with domainFlagged = false, confidence 0 and no signals; neither
\* outcome throws, writes to the ledger, runs the canary check or calls any
\* model.
C15_UpstreamErrorsAreVerdicts ==
  \A p \in Unfetched :
    LET q == procs[p]
        details == q.response.promptInjection
    IN  /\ q.response.status = 200
        /\ q.response.extracted = <<>>
        /\ details.detected
        /\ details.type \in {"fetch_error", "empty_content"}
        /\ OnlyFailures(q) => details.type = "fetch_error"
        /\ OnlyShortText(q) => details.type = "empty_content"
        /\ ~details.domainFlagged
        /\ details.confidence = 0
        /\ details.signals = <<>>
        /\ ~q.canaryReturned
        /\ q.nProbe = 0
        /\ q.nExtract = 0
        /\ q.nAdd = 0
        /\ q.nWrite = 0

\* C16: whenever the fetch step yields page text shorter than 100 characters,
\* the request's outcome is the empty_content verdict, a failure mode distinct
\* from fetch_error.
C16_ShortTextIsEmptyContent ==
  \A p \in Requests :
    (procs[p].pc = "done" /\ procs[p].nFetch = 1 /\ OnlyShortText(procs[p])) =>
      /\ procs[p].response.promptInjection.type = "empty_content"
      /\ procs[p].response.promptInjection.type # "fetch_error"

\* C17: every canaryCheck call eventually returns: the probe's language-model
\* call always resolves to a response or a swallowed failure, so a call
\* waiting on it cannot wait indefinitely.
C17_CanaryCheckReturns ==
  \A p \in Procs :
    (procs[p].op = "canaryCheck" /\ procs[p].pc = "awaitLlm") ~> (procs[p].pc = "done")

\* the largest confidence among regex matches (0 when there is none)
LargestMatch(matches) ==
  IF matches = <<>> THEN 0
  ELSE LET i == CHOOSE i \in 1..Len(matches) :
                  \A j \in 1..Len(matches) : matches[i].confidence >= matches[j].confidence
       IN  matches[i].confidence

\* C18: in aggregateConfidence, when at least 2 regex rules matched the
\* aggregated confidence is at least min(0.98, m + 0.10), m the largest regex
\* match confidence, and when at least 3 matched it is at least
\* min(0.99, min(0.98, m + 0.10) + 0.05); the boost depends only on the number
\* of regex matches, never on the Unicode or Base64 results: these enter the
\* aggregate only as candidates for the maximum.
C18_MultiMatchBoost ==
  \A p \in CanaryCallers :
    LET q == procs[p]
        matches == CheckHeuristics(q.content)
        n == Len(matches)
        m == LargestMatch(matches)
        twice == Min(980, m + 100)
        thrice == Min(990, twice + 50)
        boosted == IF n >= 3 THEN thrice ELSE IF n >= 2 THEN twice ELSE m
        unicode == CheckUnicode(q.content)
        base64 == CheckBase64(q.content)
    IN  /\ n >= 2 => q.aggregated.confidence >= twice
        /\ n >= 3 => q.aggregated.confidence >= thrice
        /\ q.aggregated.confidence =
             Max(boosted, Max(IF IsNullMatch(unicode) THEN 0 ELSE unicode.confidence,
                              IF IsNullMatch(base64) THEN 0 ELSE base64.confidence))

\* three regex rules matched, the largest at 0.70: the aggregate is 0.85
C18_Witness ==
  \E p \in CanaryCallers :
    /\ Len(CheckHeuristics(procs[p].content)) = 3
    /\ LargestMatch(CheckHeuristics(procs[p].content)) = 700
    /\ procs[p].aggregated.confidence = 850

C20_SevereOffenceBlocksDomain ==
  \A p \in Requests :
    (procs[p].afterSevere /\ procs[p].pc # "skipRead") =>
      /\ procs[p].pc = "done"
      /\ procs[p].skip
      /\ procs[p].nFetch = 0
      /\ procs[p].response.promptInjection.type = "domain_blocked"

\* ------------------------------------------------------ scanner claims

\* the first run of checkBase64's regex longer than 100 characters, 0 if none
FirstLongRun(content) ==
  LET matches == Base64Matches(content, 1, 0)
      long == { i \in 1..Len(matches) : matches[i] > 100 }
  IN  IF long = {} THEN 0
      ELSE matches[CHOOSE x \in long : \A y \in long : x <= y]

\* C21: checkBase64 returns a match if and only if the content holds a run of
\* [A-Za-z0-9+/]{40,}={0,2} longer than 100 characters; it reports the first
\* such run, and the confidence lies on the straight line from 0.60 at length
\* 100 to 0.95 at length 600 (0.0007 per character), capped at 0.95.
C21_Base64LinearScale ==
  \A p \in CanaryCallers :
    LET length == FirstLongRun(procs[p].content)
        r == CheckBase64(procs[p].content)
    IN  /\ IsNullMatch(r) <=> length = 0
        /\ length > 0 =>
             /\ r.type = "base64_payload"
             /\ r.snippet = "base64[" \o ToString(length) \o "]"
             /\ 10 * r.confidence = Min(9500, 6000 + 7 * (length - 100))

\* ------------------------------------------------- analyzeCanaryOutput claims

\* the callers whose probe has answered with a message analyzeCanaryOutput saw
Analysed ==
  { p \in CanaryCallers :
      /\ procs[p].pc = "done"
      /\ procs[p].nProbe = 1
      /\ procs[p].llmReply.kind = "content"
      /\ procs[p].llmReply.content # "" }

HasInstructionPhrase(output) ==
  \E indicator \in instructionIndicators : Includes(ToLowerCase(output), indicator)

HasMetaPhrase(output) ==
  \E indicator \in metaIndicators : Includes(ToLowerCase(output), indicator)

HasNotFoundPhrase(output) ==
  \E phrase \in notFoundPhrases : Includes(ToLowerCase(output), phrase)

\* C22: analyzeCanaryOutput classifies in strict priority order and returns at
\* most one classification: instruction_following (0.85) when the output holds
\* an instruction-following phrase, whatever else it holds; otherwise
\* meta_discussion (0.70) when it holds a meta-discussion phrase; otherwise
\* topic_deviation (0.65) or null.
C22_PriorityOrder ==
  \A p \in Analysed :
    LET output == procs[p].llmReply.content
        r == procs[p].llmResult
        one(type, confidence) ==
          /\ r.detected
          /\ r.type = type
          /\ r.confidence = confidence
          /\ r.signals = << Signal(type, confidence) >>
    IN  /\ HasInstructionPhrase(output) => one("instruction_following", 850)
        /\ (~HasInstructionPhrase(output) /\ HasMetaPhrase(output)) => one("meta_discussion", 700)
        /\ (~HasInstructionPhrase(output) /\ ~HasMetaPhrase(output)) =>
             \/ one("topic_deviation", 650)
             \/ r = NoInjection
        /\ HasNotFoundPhrase(output) => r.type # "topic_deviation"

\* an output holding an instruction-following phrase and a meta-discussion
\* phrase, off the query's topic: instruction_following
C22_Witness ==
  \E p \in Analysed :
    /\ HasInstructionPhrase(procs[p].llmReply.content)
    /\ HasMetaPhrase(procs[p].llmReply.content)
    /\ procs[p].query = "pricing tiers"
    /\ procs[p].llmResult.type = "instruction_following"
    /\ procs[p].llmResult.confidence = 850

\* the content words of a text: its lower-cased, whitespace-separated words
\* that are not stop-words
WordsOf(s) == ContentWords(ToLowerCase(s)) \ {""}

\* C23: when the output holds no instruction-following or meta-discussion
\* phrase, analyzeCanaryOutput returns topic_deviation if and only if the query
\* has at least one content word, no query word equals or shares a 4-character
\* prefix with an output word, and the output holds no not-found phrase; a
\* query without content words never yields topic_deviation.
C23_TopicDeviation ==
  \A p \in Analysed :
    LET output == procs[p].llmReply.content
        queryWords == WordsOf(procs[p].query)
        outputWords == WordsOf(output)
        overlap == \/ queryWords \cap outputWords # {}
                   \/ HasPrefixMatch(queryWords, outputWords, 4)
    IN  (~HasInstructionPhrase(output) /\ ~HasMetaPhrase(output)) =>
          /\ procs[p].llmResult.type = "topic_deviation" <=>
               (queryWords # {} /\ ~overlap /\ ~HasNotFoundPhrase(output))
          /\ queryWords = {} => procs[p].llmResult = NoInjection

\* ------------------------------------------------- aggregateConfidence claims

\* the callers that have called aggregateConfidence directly
AggregateCallers == { p \in Procs : procs[p].op = "aggregateConfidence" }

\* a scanner's result with the override of its type, if there is one
Overridden(m, weightOverrides) ==
  IF IsNullMatch(m) THEN m ELSE [m EXCEPT !.confidence = Weighted(m, weightOverrides)]

\* C24: a weight override keyed by a signal type replaces the confidence of
\* every signal of that type, hidden_unicode_* and base64_payload signals as
\* well as regex signals: the overridden value is what enters the maximum and
\* what the signal string shows.
C24_OverridesEverySignalType ==
  \A p \in AggregateCallers :
    LET q == procs[p]
        unicode == CheckUnicode(q.content)
        base64 == CheckBase64(q.content)
    IN  /\ q.aggregated =
             AggregateConfidence(CheckHeuristics(q.content),
                                 Overridden(unicode, q.weightOverrides),
                                 Overridden(base64, q.weightOverrides),
                                 q.weightOverrides)
        /\ (unicode.type = "hidden_unicode_zero_width"
              /\ q.weightOverrides = [hidden_unicode_zero_width |-> 200]) =>
             \E i \in 1..Len(q.aggregated.signals) :
               q.aggregated.signals[i] = "hidden_unicode_zero_width:0.20"

\* the largest confidence among the regex matches after the overrides
LargestOverridden(matches, weightOverrides) ==
  LET confs == { Weighted(matches[i], weightOverrides) : i \in 1..Len(matches) }
  IN  CHOOSE c \in confs : \A d \in confs : d <= c

\* C25: the multi-pattern boost only ever raises the score: with 2 or more
\* regex matches, under any weight overrides in [0, 1], the confidence
\* aggregateConfidence returns is strictly higher than the largest
\* post-override regex match confidence, and it is never lower than the
\* confidence of any contributing signal.
C25_BoostOnlyRaises ==
  \A p \in AggregateCallers :
    LET q == procs[p]
        matches == CheckHeuristics(q.content)
        unicode == CheckUnicode(q.content)
        base64 == CheckBase64(q.content)
    IN  Len(matches) >= 2 =>
          /\ q.aggregated.confidence > LargestOverridden(matches, q.weightOverrides)
          /\ \A i \in 1..Len(matches) :
               q.aggregated.confidence >= Weighted(matches[i], q.weightOverrides)
          /\ ~IsNullMatch(unicode) => q.aggregated.confidence >= unicode.confidence
          /\ ~IsNullMatch(base64) => q.aggregated.confidence >= base64.confidence

\* ------------------------------------------------ response and ledger claims

\* C26: in every /fetch or /extract response whose promptInjection is
\* non-null, promptInjection.domainFlagged is true if and only if the
\* request's domain has a record in the offenders ledger at the moment the
\* response is produced.
C26_FlaggedIffOnLedger ==
  [][ \A p \in Procs :
        (/\ procs[p].pc # "done"
         /\ procs'[p].pc = "done"
         /\ procs'[p].op = "handleExtract"
         /\ procs'[p].response.promptInjection.detected) =>
          (procs'[p].response.promptInjection.domainFlagged
             <=> GetOffender(db', procs'[p].domain).exists) ]_vars

\* C27: skip status is stable: under any interleaving of addOffender calls on
\* a domain, sequential or concurrent, with no clearOffenders, once
\* shouldSkipFetch(d) has returned true it returns true on every later call.
C27_SkipStatusStable ==
  [][ \A d \in Domains : ShouldSkipFetch(db, d) => ShouldSkipFetch(db', d) ]_vars

\* p's addOffender call has read the ledger and found no record for its domain
ReadNoRecord(p) ==
  /\ procs[p].op = "addOffender"
  /\ procs[p].pc \in {"addWrite", "done", "threw"}
  /\ ~procs[p].existing.exists

\* C28: two addOffender calls for one domain that both start while the domain
\* has no record both complete without error, under every interleaving of
\* their read and write steps, and leave one record with detectionCount = 2.
C28_ConcurrentFirstDetections ==
  \A p \in Procs : \A o \in Procs \ {p} :
    (ReadNoRecord(p) /\ ReadNoRecord(o) /\ procs[p].domain = procs[o].domain) =>
      /\ procs[p].pc # "threw"
      /\ procs[o].pc # "threw"
      /\ (procs[p].pc = "done" /\ procs[o].pc = "done") =>
           /\ db[procs[p].domain].exists
           /\ db[procs[p].domain].detectionCount = 2

\* C29 as stated: under concurrent requests, the URL fetch and the extraction
\* call of a request for domain d are never under way at a moment when
\* shouldSkipFetch(d) would return true.
C29_NeverFetchWhileSkippable ==
  \A p \in Requests :
    procs[p].pc \in {"fetching", "extracting"} => ~ShouldSkipFetch(db, procs[p].domain)

\* C29, amended: the URL fetch of a request for domain d starts only in the
\* step in which that request's own pre-fetch check finds shouldSkipFetch(d)
\* false, and extractContent is called only by a request that passed that
\* check and fetched; the ledger is not consulted again, so a request that
\* passed the check goes on to fetch and extract even when another request
\* has made d skippable in the meantime.
C29_FetchOnlyAfterPassedCheck ==
  [][ \A p \in Procs :
        /\ procs'[p].nFetch > procs[p].nFetch =>
             /\ procs[p].op = "handleExtract"
             /\ procs[p].pc = "skipRead"
             /\ ~ShouldSkipFetch(db, procs[p].domain)
             /\ procs'[p].pc = "fetching"
        /\ procs'[p].nExtract > procs[p].nExtract =>
             /\ procs[p].op = "handleExtract"
             /\ procs[p].nFetch = 1
             /\ ~procs[p].skip
             /\ procs'[p].pc = "extracting" ]_vars

\* a request that passed the check and is extracting although its domain has
\* become skippable since
C29_Witness ==
  \E p \in Requests :
    /\ procs[p].pc = "extracting"
    /\ procs[p].nFetch = 1
    /\ ~procs[p].skip
    /\ ShouldSkipFetch(db, procs[p].domain)

\* ------------------------------------------------------ probe path claim

\* C30: in every verdict canaryCheck produces through the probe path, the
\* confidence equals the probe's own confidence (0.85, 0.70 or 0.65): the
\* probe runs only when the aggregated confidence is below 0.3, so
\* aggregated.confidence + 0.2 stays below 0.5 and never determines the
\* combined value, whatever the blockThreshold.
C30_ProbeVerdictConfidence ==
  \A p \in CanaryCallers :
    LET q == procs[p]
    IN  (q.pc = "done" /\ q.nProbe = 1 /\ q.injection.detected) =>
          /\ q.aggregated.confidence + 200 < 500
          /\ q.injection.confidence = q.llmResult.confidence
          /\ q.injection.confidence \in
               { INDICATOR_WEIGHTS.instruction_following, INDICATOR_WEIGHTS.meta_discussion,
                 INDICATOR_WEIGHTS.topic_deviation }

\* a probe verdict on a page with a weak heuristic signal of its own (a
\* byte-order mark, 0.20): the verdict carries the probe's 0.65, not 0.40
C30_Witness ==
  \E p \in CanaryCallers :
    /\ procs[p].pc = "done"
    /\ procs[p].nProbe = 1
    /\ procs[p].injection.detected
    /\ procs[p].aggregated.confidence = 200
    /\ procs[p].llmResult.type = "topic_deviation"
    /\ procs[p].injection.confidence = 650

====
